---- MODULE Spec2Model ----
(***************************************************************************)
(* One HTTP exchange of the JSON-RPC dispatcher of main.go: the envelope   *)
(* parser, the call decoder, the batch homogeneity guard, the method       *)
(* router, the three executors and the response writers.  Exchanges share  *)
(* no state, so one exchange is the whole state machine.  The request      *)
(* body, the trace directory and the replies of the two upstream services  *)
(* are the environment: the body is drawn in Init, a file's state is drawn *)
(* the first time it is read, a reply is drawn when the call is made.      *)
(***************************************************************************)
EXTENDS Integers, Sequences, FiniteSets, TLC

VARIABLES
    body,       \* the request body of the exchange
    pc,         \* where the handler's task is
    req,        \* single mode: the decoded call
    reqs,       \* batch mode: the decoded calls
    resp,       \* single mode: the response handleSingleRequest returned
    responses,  \* batch mode: the response slots
    nilSlice,   \* batch mode: the response slice is Go's nil slice
    out,        \* what has been written to the caller
    io,         \* the outbound HTTP calls made so far, in order
    upstream,   \* the JSON-RPC upstream's reply to the forwarded request
    steps,      \* the components that have run so far
    fs,         \* the trace files read so far, with what was found
    idx,        \* the loop index of the running batch loop
    tpc,        \* batch file lookup: where each task is
    wg,         \* batch file lookup: the WaitGroup's counter
    writes      \* batch file lookup: how often each slot was written

vars == <<body, pc, req, reqs, resp, responses, nilSlice, out, io, upstream,
          steps, fs, idx, tpc, wg, writes>>

\* ------------------------------------------------------------------ bounds

MaxBatch == 2
MaxReply == 2

\* ------------------------------------------------------- JSON and Go values

\* A JSON value or a Go interface{} value: a tag and a payload.
Val(t, v) == [t |-> t, v |-> v]
Absent == Val("absent", "")     \* the member is not in the JSON object
JNull == Val("null", "")        \* the JSON token null
Nil == Val("nil", "")           \* Go's nil interface{}
JNum(s) == Val("num", s)
JStr(s) == Val("str", s)

\* json.Unmarshal into an interface{} field: an absent member and the token
\* null both leave the field nil; any other token is kept by value.
DecodeAny(j) == IF j.t \in {"absent", "null"} THEN Nil ELSE j

\* json.Marshal of an interface{} field without omitempty: nil is null.
EncodeAlways(g) == IF g.t \in {"nil", "nilslice"} THEN JNull ELSE g

\* json.Marshal of an interface{} field tagged omitempty: a nil interface is
\* left out; a nil slice held in the interface is not nil and encodes as null.
EncodeOmitEmpty(g) ==
    IF g.t = "nil" THEN Absent
    ELSE IF g.t = "nilslice" THEN JNull
    ELSE g

\* The error member: a code and a message; NoErr is the nil interface{}.
ErrObj(code, msg) == [code |-> code, message |-> msg]
NoErr == ErrObj(0, "")

\* ------------------------------------------------------------ program types

JSONRPCRequest(j, m, p, id) == [jsonrpc |-> j, method |-> m, params |-> p, id |-> id]
ZeroRequest == JSONRPCRequest("", "", <<>>, Nil)

JSONRPCResponse(j, id, result, error) ==
    [jsonrpc |-> j, id |-> id, result |-> result, error |-> error]
ZeroResponse == JSONRPCResponse("", Nil, Nil, NoErr)

\* jsonError putting the message into result and leaving error nil.
jsonError_AsResult(id, code, msg) == JSONRPCResponse("2.0", id, JStr(msg), NoErr)

jsonError(id, code, msg) == JSONRPCResponse("2.0", id, Nil, ErrObj(code, msg))

\* json.NewEncoder(w).Encode of one JSONRPCResponse: the members on the wire.
EncodeResponse(r) ==
    [jsonrpc |-> r.jsonrpc,
     id |-> EncodeAlways(r.id),
     result |-> EncodeOmitEmpty(r.result),
     error |-> r.error]

EncodeAll(rs) == [k \in 1..Len(rs) |-> EncodeResponse(rs[k])]

\* What the exchange has written to the caller.
Wire(kind, arr) == [kind |-> kind, arr |-> arr]
NoBody == Wire("none", <<>>)

\* ------------------------------------------------------------------ inputs

MethodBlock == "debug_traceBlockByHash"
MethodTrace == "eth_debugTransactionTrace"
MethodOther == "eth_call"
Methods == {MethodBlock, MethodTrace, MethodOther}
Versions == {"2.0", "1.0"}
TxIds == {"tx1", "tx2"}
BlockNums == {"100"}
RawIds == {Absent, JNull, JNum("1"), JStr("a")}

\* The parameter lists a call of each method is drawn with; the forward proxy
\* never looks at the parameters.
ParamsOf(m) ==
    IF m = MethodBlock
    THEN {<<>>} \cup {<<JNum(n)>> : n \in BlockNums} \cup {<<JStr("tx1")>>}
    ELSE IF m = MethodTrace
    THEN {<<>>} \cup {<<JNum(n)>> : n \in BlockNums} \cup {<<JStr(t)>> : t \in TxIds}
    ELSE {<<>>}

\* One element of the request: a JSON value taken to be a call.  shape is
\* "object", "null" or "other" (a number, a string, an array); pshape says
\* whether the params member is an array or some other token.
Elem(shape, j, m, pshape, p, id) ==
    [shape |-> shape, jsonrpc |-> j, method |-> m, pshape |-> pshape,
     params |-> p, id |-> id]

CallElems(versions, ids) ==
    UNION {{Elem("object", j, m, "array", p, id) :
              j \in versions, p \in ParamsOf(m), id \in ids} : m \in Methods}
MistypedElems == {Elem("object", "2.0", m, "other", <<>>, JNum("1")) : m \in Methods}
NullElem == Elem("null", "", "", "array", <<>>, Absent)
OtherElem == Elem("other", "", "", "array", <<>>, Absent)

\* Single mode draws every combination.  A batch element is drawn from fewer:
\* the batch path never reads the version, so an element of another version
\* is drawn with one id only, and null (which decodes like an absent id) is
\* left to single mode.
SingleElems == CallElems(Versions, RawIds) \cup MistypedElems
BatchElems ==
    CallElems({"2.0"}, RawIds \ {JNull})
    \cup CallElems({"1.0"}, {JNum("1")})
    \cup MistypedElems \cup {NullElem, OtherElem}

Body(kind, elems) == [kind |-> kind, elems |-> elems]

\* ------------------------------------------------------------- environment

\* A trace file: absent, not JSON, the document null, or its own document.
Doc(tx) == Val("doc", tx)
FileStates(tx) == {Val("missing", ""), Val("badjson", ""), JNull, Doc(tx)}
Unread == Val("unread", "")

\* The REST endpoint's reply to one call.
RestReplies == {"transport", "malformed", "array", "null"}

\* A reply body of the JSON-RPC upstream that decodes as one JSONRPCResponse.
UpErr == ErrObj(-32000, "upstream error")
UpstreamResponses ==
    {JSONRPCResponse("2.0", id, r, e) :
        id \in {Nil, JNum("1"), JNum("99")}, r \in {Nil, JStr("r")}, e \in {NoErr, UpErr}}
UpstreamBatchResponses ==
    {JSONRPCResponse("2.0", id, re[1], re[2]) :
        id \in {Nil, JNum("1")}, re \in {<<JStr("r"), NoErr>>, <<Nil, UpErr>>}}

Reply(kind, arr) == [kind |-> kind, arr |-> arr]
SingleReplies ==
    {Reply("transport", <<>>), Reply("undecodable", <<>>)}
    \cup {Reply("null", <<>>)}
    \cup {Reply("object", <<r>>) : r \in UpstreamResponses}
BatchReplies ==
    {Reply(k, <<>>) : k \in {"transport", "undecodable", "null"}}
    \cup {Reply("object", <<r>>) : r \in UpstreamBatchResponses}
    \cup UNION {{Reply("array", s) : s \in [1..n -> UpstreamBatchResponses]} : n \in 0..MaxReply}

\* ---------------------------------------------------------------- decoding

\* json.Unmarshal of an element into a JSONRPCRequest fails when the element
\* is no object (null is accepted and changes nothing) or a member has the
\* wrong type.
DecodeFails(e) == e.shape = "other" \/ (e.shape = "object" /\ e.pshape = "other")

DecodeCall(e) ==
    IF e.shape = "null" THEN ZeroRequest
    ELSE JSONRPCRequest(e.jsonrpc, e.method, e.params, DecodeAny(e.id))

BatchParseError == jsonError(Nil, -32700, "Parse error: invalid JSON in batch")

\* parseBatchRequests answering every element: the parse error for one that
\* fails, an invalid-request error with its id for one that decodes.
parseBatchErrors_EveryElement(arr) ==
    [k \in 1..Len(arr) |->
        IF DecodeFails(arr[k]) THEN BatchParseError
        ELSE jsonError(DecodeCall(arr[k]).id, -32600, "Invalid Request")]

\* parseBatchRequests: one error per element that fails, appended in order;
\* the requests are returned only when no element failed.
parseBatchErrors(arr) ==
    LET bad == SelectSeq(arr, DecodeFails)
    IN [k \in 1..Len(bad) |-> BatchParseError]

parseBatchRequests(arr) == [k \in 1..Len(arr) |-> DecodeCall(arr[k])]

\* createErrorResponsesForBatch giving every error the first call's id.
createErrorResponsesForBatch_FirstId(rs, code, msg) ==
    [k \in 1..Len(rs) |-> jsonError(rs[1].id, code, msg)]

createErrorResponsesForBatch(rs, code, msg) ==
    [k \in 1..Len(rs) |-> jsonError(rs[k].id, code, msg)]

\* sendError, sendJSONRPCResponse and sendBatchResponse.
sendError(id, code, msg) == Wire("object", <<EncodeResponse(jsonError(id, code, msg))>>)

\* sendJSONRPCResponse without its check of the id.
sendJSONRPCResponse_NoIdCheck(r) == Wire("object", <<EncodeResponse(r)>>)

sendJSONRPCResponse(r) ==
    IF r.id = Nil THEN NoBody ELSE Wire("object", <<EncodeResponse(r)>>)

sendBatchResponse(rs, isNil) ==
    IF isNil THEN Wire("null", <<>>) ELSE Wire("array", EncodeAll(rs))

\* --------------------------------------------------------------- executors

\* json.Unmarshal of a parameter into an int64 or a string: null is accepted
\* and leaves the zero value.
IsInteger(j) == j.t \in {"num", "null"}
BlockId(j) == IF j.t = "null" THEN "0" ELSE j.v
IsString(j) == j.t \in {"str", "null"}
TxId(j) == IF j.t = "null" THEN "" ELSE j.v

\* Whether the executor reaches its outbound call or file read.
RestCalls(r) == Len(r.params) > 0 /\ IsInteger(r.params[1])
TraceReads(r) == Len(r.params) > 0 /\ IsString(r.params[1])

handleGetTransactionInfoByBlockNum(r, reply) ==
    IF Len(r.params) = 0 THEN jsonError(r.id, -32602, "Invalid params")
    ELSE IF ~IsInteger(r.params[1])
    THEN jsonError(r.id, -32602, "Invalid params: must be integer block number")
    ELSE IF reply = "transport" THEN jsonError(r.id, -32603, "Internal error: transport")
    ELSE IF reply = "malformed"
    THEN jsonError(r.id, -32603, "Invalid response from TronNode REST")
    ELSE IF reply = "null"
    THEN JSONRPCResponse("2.0", r.id, Val("nilslice", BlockId(r.params[1])), NoErr)
    ELSE JSONRPCResponse("2.0", r.id, Val("txinfos", BlockId(r.params[1])), NoErr)

handleDebugTransactionTrace(r, file) ==
    IF Len(r.params) = 0 THEN jsonError(r.id, -32602, "Invalid params")
    ELSE IF ~IsString(r.params[1])
    THEN jsonError(r.id, -32602, "Invalid params: must be string TxId")
    ELSE IF file.t = "missing" THEN jsonError(r.id, -32603, "cannot read trace file")
    ELSE IF file.t = "badjson" THEN jsonError(r.id, -32603, "Invalid JSON in trace file")
    ELSE JSONRPCResponse("2.0", r.id, DecodeAny(file), NoErr)

\* A task that reports a failed read as invalid parameters.
traceTask_ReadFailureIsBadParams(r, file) ==
    IF Len(r.params) = 0 THEN jsonError(r.id, -32602, "Invalid params")
    ELSE IF ~IsString(r.params[1]) \/ file.t = "missing"
    THEN jsonError(r.id, -32602, "Invalid params: must be string TxId")
    ELSE IF file.t = "badjson" THEN jsonError(r.id, -32603, "Invalid JSON in trace file")
    ELSE JSONRPCResponse("2.0", r.id, DecodeAny(file), NoErr)

\* A task that has one message for both failures of the file.
traceTask_OneFileMessage(r, file) ==
    IF Len(r.params) = 0 THEN jsonError(r.id, -32602, "Invalid params")
    ELSE IF ~IsString(r.params[1])
    THEN jsonError(r.id, -32602, "Invalid params: must be string TxId")
    ELSE IF file.t \in {"missing", "badjson"}
    THEN jsonError(r.id, -32603, "cannot read trace file")
    ELSE JSONRPCResponse("2.0", r.id, DecodeAny(file), NoErr)

\* The body of one task of handleBatchDebugTransactionTrace.
traceTask(r, file) ==
    IF Len(r.params) = 0 THEN jsonError(r.id, -32602, "Invalid params")
    ELSE IF ~IsString(r.params[1])
    THEN jsonError(r.id, -32602, "Invalid params: must be string TxId")
    ELSE IF file.t = "missing" THEN jsonError(r.id, -32603, "cannot read trace file")
    ELSE IF file.t = "badjson" THEN jsonError(r.id, -32603, "Invalid JSON in trace file")
    ELSE JSONRPCResponse("2.0", r.id, DecodeAny(file), NoErr)

\* forwardAndReturn without the assignment forwardResp.ID = req.ID.
forwardAndReturn_KeepsUpstreamId(r, reply) ==
    IF reply.kind = "transport" THEN jsonError(r.id, -32603, "Internal error: transport")
    ELSE IF reply.kind = "undecodable"
    THEN jsonError(r.id, -32603, "Invalid response from forwarded service")
    ELSE IF reply.kind = "null" THEN ZeroResponse ELSE reply.arr[1]

forwardAndReturn(r, reply) ==
    IF reply.kind = "transport" THEN jsonError(r.id, -32603, "Internal error: transport")
    ELSE IF reply.kind = "undecodable"
    THEN jsonError(r.id, -32603, "Invalid response from forwarded service")
    ELSE LET forwardResp == IF reply.kind = "null" THEN ZeroResponse ELSE reply.arr[1]
         IN [forwardResp EXCEPT !.id = r.id]

\* forwardBatchToJSONRPC without the test singleResp.ID != nil.
forwardBatchToJSONRPC_AnyObject(rs, reply) ==
    IF reply.kind = "transport"
    THEN createErrorResponsesForBatch(rs, -32603, "Internal error: transport")
    ELSE IF reply.kind = "array" THEN reply.arr
    ELSE IF reply.kind = "null" THEN <<>>
    ELSE IF reply.kind = "object" THEN reply.arr
    ELSE createErrorResponsesForBatch(rs, -32603, "Invalid response from forwarded service")

forwardBatchToJSONRPC(rs, reply) ==
    IF reply.kind = "transport"
    THEN createErrorResponsesForBatch(rs, -32603, "Internal error: transport")
    ELSE IF reply.kind = "array" THEN reply.arr
    ELSE IF reply.kind = "null" THEN <<>>
    ELSE IF reply.kind = "object" /\ reply.arr[1].id # Nil THEN reply.arr
    ELSE createErrorResponsesForBatch(rs, -32603, "Invalid response from forwarded service")

\* What a read of tx's trace file can find: a file read before is unchanged.
FileKeys == TxIds \cup {""}
Found(tx) == IF fs[tx] = Unread THEN FileStates(tx) ELSE {fs[tx]}

\* An outbound HTTP call: which endpoint, for which batch index (0 in single
\* mode and for the forwarded body), with what argument, and the reply
\* ("pending" while the call is in flight).
IoEvent(op, at, arg, reply) == [op |-> op, at |-> at, arg |-> arg, reply |-> reply]
Pending(evs) == {e \in 1..Len(evs) : evs[e].reply = "pending"}

\* -------------------------------------------------------------------- Init

Init ==
    /\ \/ \E k \in {"unreadable", "malformed", "scalar"} : body = Body(k, <<>>)
       \/ \E e \in SingleElems : body = Body("object", <<e>>)
       \/ \E n \in 0..MaxBatch : \E s \in [1..n -> BatchElems] : body = Body("array", s)
    /\ pc = "start"
    /\ req = ZeroRequest
    /\ reqs = <<>>
    /\ resp = ZeroResponse
    /\ responses = <<>>
    /\ nilSlice = FALSE
    /\ out = NoBody
    /\ io = <<>>
    /\ upstream = Reply("none", <<>>)
    /\ steps = {}
    /\ fs = [tx \in FileKeys |-> Unread]
    /\ idx = 0
    /\ tpc = <<>>
    /\ wg = 0
    /\ writes = <<>>

\* ----------------------------------------------------------- handleJSONRPC

\* The batch case without the check for an empty array.
EmptyArrayAnswered_Never(elems) == FALSE

\* The batch case answers an empty array at once.
EmptyArrayAnswered(elems) == Len(elems) = 0

\* Reading the body, decoding it to a generic value and switching on its
\* shape.
Envelope ==
    /\ pc = "start"
    /\ IF body.kind = "unreadable"
       THEN /\ out' = sendError(Nil, -32603, "Internal error: unable to read request body")
            /\ pc' = "done"
       ELSE IF body.kind = "malformed"
       THEN /\ out' = sendError(Nil, -32700, "Parse error: invalid JSON")
            /\ pc' = "done"
       ELSE IF body.kind = "scalar"
       THEN /\ out' = sendError(Nil, -32700, "Parse error: invalid structure")
            /\ pc' = "done"
       ELSE IF body.kind = "object"
       THEN /\ out' = out
            /\ pc' = "single_decode"
       ELSE IF EmptyArrayAnswered(body.elems)
       THEN /\ out' = Wire("array", <<>>)
            /\ pc' = "done"
       ELSE /\ out' = out
            /\ pc' = "batch_decode"
    /\ UNCHANGED <<body, upstream, req, reqs, resp, responses, nilSlice, io, steps, fs,
                   idx, tpc, wg, writes>>

\* parseSingleRequest and the parse error of single mode.
SingleDecode ==
    /\ pc = "single_decode"
    /\ steps' = steps \cup {"decoder"}
    /\ IF DecodeFails(body.elems[1])
       THEN /\ out' = sendError(Nil, -32700, "Parse error: invalid request object")
            /\ pc' = "done"
            /\ req' = req
       ELSE /\ req' = DecodeCall(body.elems[1])
            /\ pc' = "single_handle"
            /\ out' = out
    /\ UNCHANGED <<body, upstream, reqs, resp, responses, nilSlice, io, fs, idx, tpc, wg, writes>>

\* handleSingleRequest: the version check and the method switch.
SingleRoute(r) ==
    IF r.jsonrpc # "2.0" THEN "reject"
    ELSE IF r.method = MethodBlock THEN "single_rest"
    ELSE IF r.method = MethodTrace THEN "single_trace"
    ELSE "single_forward"

HandleSingleRequest ==
    /\ pc = "single_handle"
    /\ steps' = steps \cup {"router"}
    /\ IF SingleRoute(req) = "reject"
       THEN /\ resp' = jsonError(req.id, -32600, "Invalid Request")
            /\ pc' = "single_send"
       ELSE /\ resp' = resp
            /\ pc' = SingleRoute(req)
    /\ UNCHANGED <<body, upstream, req, reqs, responses, nilSlice, out, io, fs, idx, tpc,
                   wg, writes>>

SingleRest ==
    /\ pc = "single_rest"
    /\ steps' = steps \cup {"rest"}
    /\ \E reply \in RestReplies :
          /\ resp' = handleGetTransactionInfoByBlockNum(req, reply)
          /\ io' = IF RestCalls(req)
                   THEN Append(io, IoEvent("rest", 0, BlockId(req.params[1]), reply))
                   ELSE io
    /\ pc' = "single_send"
    /\ UNCHANGED <<body, upstream, req, reqs, responses, nilSlice, out, fs, idx, tpc, wg, writes>>

SingleTrace ==
    /\ pc = "single_trace"
    /\ steps' = steps \cup {"trace"}
    /\ IF TraceReads(req)
       THEN \E file \in Found(TxId(req.params[1])) :
               /\ resp' = handleDebugTransactionTrace(req, file)
               /\ fs' = [fs EXCEPT ![TxId(req.params[1])] = file]
       ELSE /\ resp' = handleDebugTransactionTrace(req, Unread)
            /\ fs' = fs
    /\ pc' = "single_send"
    /\ UNCHANGED <<body, upstream, req, reqs, responses, nilSlice, out, io, idx, tpc, wg, writes>>

SingleForward ==
    /\ pc = "single_forward"
    /\ steps' = steps \cup {"forward"}
    /\ \E reply \in SingleReplies :
          /\ resp' = forwardAndReturn(req, reply)
          /\ upstream' = reply
          /\ io' = Append(io, IoEvent("post", 0, req.method, reply.kind))
    /\ pc' = "single_send"
    /\ UNCHANGED <<body, req, reqs, responses, nilSlice, out, fs, idx, tpc, wg, writes>>

SendSingle ==
    /\ pc = "single_send"
    /\ out' = sendJSONRPCResponse(resp)
    /\ pc' = "done"
    /\ UNCHANGED <<body, upstream, req, reqs, resp, responses, nilSlice, io, steps, fs,
                   idx, tpc, wg, writes>>

\* ------------------------------------------------------------------- batch

\* parseBatchRequests and the return on any decode failure.
BatchDecode ==
    /\ pc = "batch_decode"
    /\ steps' = steps \cup {"decoder"}
    /\ IF Len(parseBatchErrors(body.elems)) > 0
       THEN /\ out' = sendBatchResponse(parseBatchErrors(body.elems), FALSE)
            /\ pc' = "done"
            /\ reqs' = reqs
       ELSE /\ reqs' = parseBatchRequests(body.elems)
            /\ pc' = "batch_guard"
            /\ out' = out
    /\ UNCHANGED <<body, upstream, req, resp, responses, nilSlice, io, fs, idx, tpc, wg, writes>>

\* A comparison that finds no batch mixed.
MixedMethods_Never(rs) == \E k \in 1..Len(rs) : rs[k].method # rs[k].method

\* The method comparison against reqs[0].Method.
MixedMethods(rs) == \E k \in 1..Len(rs) : rs[k].method # rs[1].method

BatchRoute(m) ==
    IF m = MethodBlock THEN "batch_rest"
    ELSE IF m = MethodTrace THEN "batch_trace"
    ELSE "batch_forward"

\* The homogeneity check and the switch on the batch's method.
BatchGuard ==
    /\ pc = "batch_guard"
    /\ steps' = steps \cup {"guard"}
    /\ IF MixedMethods(reqs)
       THEN /\ out' = sendBatchResponse(
                         createErrorResponsesForBatch(reqs, -32601, "Mixed methods not supported"),
                         FALSE)
            /\ pc' = "done"
       ELSE /\ out' = out
            /\ pc' = BatchRoute(reqs[1].method)
    /\ UNCHANGED <<body, upstream, req, reqs, resp, responses, nilSlice, io, fs, idx, tpc,
                   wg, writes>>

\* handleBatchGetTransactionInfo: the slots, then one call after the other.
BatchRestStart ==
    /\ pc = "batch_rest"
    /\ steps' = steps \cup {"rest"}
    /\ responses' = [k \in 1..Len(reqs) |-> ZeroResponse]
    /\ idx' = 0
    /\ pc' = "batch_rest_loop"
    /\ UNCHANGED <<body, upstream, req, reqs, resp, nilSlice, out, io, fs, tpc, wg, writes>>

\* A loop that goes on while a call is in flight.
RestMayIssue_Always(evs) == TRUE

\* http.Post blocks: the loop takes its next call only when none is in flight.
RestMayIssue(evs) == Pending(evs) = {}

\* One iteration up to its outbound call: a call with bad parameters is
\* answered without one, otherwise the call goes out.
BatchRestCall ==
    /\ pc = "batch_rest_loop"
    /\ idx < Len(reqs)
    /\ RestMayIssue(io)
    /\ IF RestCalls(reqs[idx + 1])
       THEN /\ io' = Append(io, IoEvent("rest", idx + 1, BlockId(reqs[idx + 1].params[1]),
                                        "pending"))
            /\ UNCHANGED <<responses, idx, pc>>
       ELSE /\ responses' = [responses EXCEPT
                               ![idx + 1] = handleGetTransactionInfoByBlockNum(reqs[idx + 1], "none")]
            /\ idx' = idx + 1
            /\ pc' = IF idx + 1 = Len(reqs) THEN "batch_send" ELSE pc
            /\ io' = io
    /\ UNCHANGED <<body, upstream, req, reqs, resp, nilSlice, out, steps, fs, tpc, wg, writes>>

\* The call in flight returns and the iteration stores its Response.
BatchRestReturn ==
    /\ pc = "batch_rest_loop"
    /\ Pending(io) # {}
    /\ LET e == Len(io)
           k == io[e].at
       IN /\ io[e].reply = "pending"
          /\ \E reply \in RestReplies :
                /\ responses' = [responses EXCEPT
                                   ![k] = handleGetTransactionInfoByBlockNum(reqs[k], reply)]
                /\ io' = [io EXCEPT ![e].reply = reply]
    /\ idx' = idx + 1
    /\ pc' = IF idx + 1 >= Len(reqs) THEN "batch_send" ELSE pc
    /\ UNCHANGED <<body, upstream, req, reqs, resp, nilSlice, out, steps, fs, tpc, wg, writes>>

\* handleBatchDebugTransactionTrace: the slots and wg.Add(len(reqs)).
BatchTraceStart ==
    /\ pc = "batch_trace"
    /\ steps' = steps \cup {"trace"}
    /\ responses' = [k \in 1..Len(reqs) |-> ZeroResponse]
    /\ writes' = [k \in 1..Len(reqs) |-> 0]
    /\ tpc' = [k \in 1..Len(reqs) |-> "unspawned"]
    /\ wg' = Len(reqs)
    /\ idx' = 0
    /\ pc' = "batch_trace_spawn"
    /\ UNCHANGED <<body, upstream, req, reqs, resp, nilSlice, out, io, fs>>

\* One iteration of the loop that starts the tasks.
BatchTraceSpawn ==
    /\ pc = "batch_trace_spawn"
    /\ idx < Len(reqs)
    /\ tpc' = [tpc EXCEPT ![idx + 1] = "running"]
    /\ idx' = idx + 1
    /\ pc' = IF idx + 1 = Len(reqs) THEN "batch_trace_wait" ELSE pc
    /\ UNCHANGED <<body, upstream, req, reqs, resp, responses, nilSlice, out, io, steps,
                   fs, wg, writes>>

\* A task that reads the loop variable itself: the slot is whichever index
\* the spawning loop has reached when the task runs.
Slot_LoopVariable(k) == IF idx < Len(reqs) THEN idx + 1 ELSE Len(reqs)

\* The slot task k writes: idx := i is copied per iteration, before the task
\* is started, so the task of iteration k holds k.
Slot(k) == k

\* Task k up to its return: the parameter checks, the file read, the decode
\* and the write of its slot.
TaskRun(k) ==
    /\ tpc[k] = "running"
    /\ IF TraceReads(reqs[Slot(k)])
       THEN \E file \in Found(TxId(reqs[Slot(k)].params[1])) :
               /\ responses' = [responses EXCEPT ![Slot(k)] = traceTask(reqs[Slot(k)], file)]
               /\ fs' = [fs EXCEPT ![TxId(reqs[Slot(k)].params[1])] = file]
       ELSE /\ responses' = [responses EXCEPT ![Slot(k)] = traceTask(reqs[Slot(k)], Unread)]
            /\ fs' = fs
    /\ writes' = [writes EXCEPT ![Slot(k)] = @ + 1]
    /\ tpc' = [tpc EXCEPT ![k] = "returning"]
    /\ UNCHANGED <<body, pc, upstream, req, reqs, resp, nilSlice, out, io, steps, idx, wg>>

\* A task that signals only at the end of its body: the early returns of the
\* error paths leave without it.
DoneOnExit_OnlyOnSuccess(r) == r.error = NoErr

\* defer wg.Done() runs on whatever return the task takes, whatever it wrote.
DoneOnExit(r) == TRUE

\* Task k's deferred wg.Done().
TaskDone(k) ==
    /\ tpc[k] = "returning"
    /\ wg' = IF DoneOnExit(responses[k]) THEN wg - 1 ELSE wg
    /\ tpc' = [tpc EXCEPT ![k] = "done"]
    /\ UNCHANGED <<body, pc, upstream, req, reqs, resp, responses, nilSlice, out, io,
                   steps, fs, idx, writes>>

\* The goroutine of iteration k, once the batch has that many calls.
Task(k) == k \in 1..Len(tpc) /\ (TaskRun(k) \/ TaskDone(k))

Tasks == \E k \in 1..MaxBatch : Task(k)

\* A handler that does not wait for the tasks.
WaitReturns_AtOnce(n) == TRUE

\* wg.Wait() returns once the counter is zero.
WaitReturns(n) == n = 0

BatchTraceWait ==
    /\ pc = "batch_trace_wait"
    /\ WaitReturns(wg)
    /\ pc' = "batch_send"
    /\ UNCHANGED <<body, upstream, req, reqs, resp, responses, nilSlice, out, io, steps,
                   fs, idx, tpc, wg, writes>>

BatchForward ==
    /\ pc = "batch_forward"
    /\ steps' = steps \cup {"forward"}
    /\ \E reply \in BatchReplies :
          /\ responses' = forwardBatchToJSONRPC(reqs, reply)
          /\ nilSlice' = (reply.kind = "null")
          /\ upstream' = reply
          /\ io' = Append(io, IoEvent("post", 0, reqs[1].method, reply.kind))
    /\ pc' = "batch_send"
    /\ UNCHANGED <<body, req, reqs, resp, out, fs, idx, tpc, wg, writes>>

SendBatch ==
    /\ pc = "batch_send"
    /\ out' = sendBatchResponse(responses, nilSlice)
    /\ pc' = "done"
    /\ UNCHANGED <<body, upstream, req, reqs, resp, responses, nilSlice, io, steps, fs,
                   idx, tpc, wg, writes>>

Next ==
    \/ Envelope
    \/ SingleDecode
    \/ HandleSingleRequest
    \/ SingleRest
    \/ SingleTrace
    \/ SingleForward
    \/ SendSingle
    \/ BatchDecode
    \/ BatchGuard
    \/ BatchRestStart
    \/ BatchRestCall
    \/ BatchRestReturn
    \/ BatchTraceStart
    \/ BatchTraceSpawn
    \/ Tasks
    \/ BatchTraceWait
    \/ BatchForward
    \/ SendBatch

Spec == Init /\ [][Next]_vars

\* ------------------------------------------- the trace batch, with scheduling

\* The calls of a trace batch: the elements that decode and name the trace
\* method, with every shape of parameter. The task never looks at the version
\* and only copies the id, so one of each is drawn.
TraceElems ==
    {e \in BatchElems : /\ ~DecodeFails(e)
                        /\ DecodeCall(e).method = MethodTrace
                        /\ e.jsonrpc = "2.0"
                        /\ e.id = JNum("1")}

InitTrace ==
    /\ \E n \in 1..MaxBatch : \E s \in [1..n -> TraceElems] : body = Body("array", s)
    /\ pc = "start"
    /\ req = ZeroRequest
    /\ reqs = <<>>
    /\ resp = ZeroResponse
    /\ responses = <<>>
    /\ nilSlice = FALSE
    /\ out = NoBody
    /\ io = <<>>
    /\ upstream = Reply("none", <<>>)
    /\ steps = {}
    /\ fs = [tx \in FileKeys |-> Unread]
    /\ idx = 0
    /\ tpc = <<>>
    /\ wg = 0
    /\ writes = <<>>

NextTrace ==
    \/ Envelope
    \/ BatchDecode
    \/ BatchGuard
    \/ BatchTraceStart
    \/ BatchTraceSpawn
    \/ Tasks
    \/ BatchTraceWait
    \/ SendBatch

\* The handler's goroutine keeps running, and so does every started task:
\* the Go scheduler runs a runnable goroutine, and os.ReadFile returns.
HandlerRuns ==
    /\ WF_vars(Envelope) /\ WF_vars(BatchDecode) /\ WF_vars(BatchGuard)
    /\ WF_vars(BatchTraceStart) /\ WF_vars(BatchTraceSpawn)
    /\ WF_vars(BatchTraceWait) /\ WF_vars(SendBatch)
TasksRun == \A k \in 1..MaxBatch : WF_vars(Task(k))

SpecTraceLive == InitTrace /\ [][NextTrace]_vars /\ HandlerRuns /\ TasksRun

\* ------------------------------------------------------------ vocabulary

Done == pc = "done"
SingleMode == body.kind = "object"
BatchMode == body.kind = "array" /\ Len(body.elems) > 0
N == Len(body.elems)
AllDecode == \A k \in 1..N : ~DecodeFails(body.elems[k])
NoFileRead == \A tx \in FileKeys : fs[tx] = Unread
Executors == {"rest", "trace", "forward"}
NoExecutor == steps \cap Executors = {} /\ io = <<>> /\ NoFileRead

\* An entry of the written body is an error of this code, a result, and so on.
IsError(w, code) == w.error.code = code /\ w.result = Absent
HasResult(w) == w.result # Absent
HasError(w) == w.error # NoErr

\* ---------------------------------------------------------------------- C1

\* C1: in single mode, once the call is decoded and its id is absent (the
\* decoded id is nil), nothing is ever written to the caller, whichever path
\* handles the call and however that path ends.
C1_NotificationWritesNothing ==
    (SingleMode /\ "router" \in steps /\ req.id = Nil) => out = NoBody

C1_Witness ==
    /\ Done /\ SingleMode /\ body.elems[1].id = Absent
    /\ "forward" \in steps /\ resp.result # Nil /\ out = NoBody

\* ---------------------------------------------------------------------- C2

\* C2: for a non-empty batch of N elements the written array has exactly N
\* entries, and where element i decoded, entry i carries call i's id.
C2_BatchAligned ==
    (Done /\ BatchMode) =>
        /\ out.kind = "array"
        /\ Len(out.arr) = N
        /\ \A k \in 1..N :
              ~DecodeFails(body.elems[k]) /\ upstream.kind \notin {"array", "object"}
                 => out.arr[k].id = EncodeAlways(DecodeCall(body.elems[k]).id)

\* ---------------------------------------------------------------------- C3

\* C3: a single call of version "2.0" and a locally handled method, whose id
\* is a number, a string or null, is answered with a Response carrying that id.
C3_LocalIdEchoed ==
    (Done /\ SingleMode /\ "router" \in steps /\ req.jsonrpc = "2.0"
          /\ req.method \in {MethodBlock, MethodTrace}
          /\ body.elems[1].id # Absent)
       => (out.kind = "object" /\ out.arr[1].id = body.elems[1].id)

\* ---------------------------------------------------------------------- C4

\* The method values the elements of the batch carry.
MethodsCarried == {body.elems[k].method : k \in {j \in 1..N : body.elems[j].shape = "object"}}

MixedRejection ==
    /\ out.kind = "array"
    /\ Len(out.arr) = N
    /\ \A k \in 1..N :
          /\ IsError(out.arr[k], -32601)
          /\ out.arr[k].id = EncodeAlways(DecodeCall(body.elems[k]).id)

\* C4 as stated: a batch whose elements carry two or more distinct methods is
\* answered with one -32601 error per call, with that call's id.
C4_MixedAlwaysRejected ==
    (Done /\ BatchMode /\ Cardinality(MethodsCarried) >= 2) => MixedRejection

\* C4 as amended: a batch all of whose elements decode, and whose calls
\* carry two or more distinct methods, is answered with one -32601 error per
\* call, with that call's id.
C4_MixedDecodedRejected ==
    (Done /\ BatchMode /\ AllDecode
          /\ Cardinality({reqs[k].method : k \in 1..Len(reqs)}) >= 2)
       => MixedRejection

C4_Witness ==
    /\ Done /\ BatchMode /\ AllDecode /\ N = 2
    /\ reqs[1].method = MethodTrace /\ reqs[2].method = MethodOther
    /\ reqs[1].id = JNum("1") /\ reqs[2].id = Nil
    /\ MixedRejection

\* ---------------------------------------------------------------------- C5

ValidTraceBatch ==
    /\ BatchMode
    /\ "trace" \in steps
    /\ \A k \in 1..Len(reqs) : Len(reqs[k].params) > 0 /\ reqs[k].params[1].t = "str"

FileOf(k) == fs[TxId(reqs[k].params[1])]

\* Exactly the file of index k is missing: every other call's file is there
\* and holds a JSON document.
OnlyMissing(k) ==
    /\ FileOf(k).t = "missing"
    /\ \A i \in 1..Len(reqs) : i # k => FileOf(i).t \notin {"missing", "badjson", "unread"}

\* C5: in a batch of trace calls with string parameters where exactly file k
\* is missing, once the tasks have been joined slot k holds error -32603 and
\* every other slot i holds the decoded content of its own file as result,
\* each with its call's id; TLC runs every interleaving of the tasks.
C5_OnlyMissingFileFails ==
    \A k \in 1..Len(reqs) :
        (ValidTraceBatch /\ pc \in {"batch_send", "done"} /\ OnlyMissing(k)) =>
            /\ Len(responses) = N
            /\ responses[k].error.code = -32603
            /\ responses[k].result = Nil
            /\ responses[k].id = reqs[k].id
            /\ \A i \in 1..Len(reqs) : i # k =>
                  /\ responses[i].error = NoErr
                  /\ responses[i].result = DecodeAny(FileOf(i))
                  /\ responses[i].id = reqs[i].id
            /\ Done => out = Wire("array", EncodeAll(responses))

C5_Witness ==
    /\ Done /\ ValidTraceBatch /\ N = 2 /\ OnlyMissing(2)
    /\ reqs[1].id = JStr("a") /\ reqs[2].id = JNum("1")
    /\ responses[1].result = Doc("tx1")
    /\ responses[2].error.code = -32603

\* ---------------------------------------------------------------------- C6

\* C6: when a single call is forwarded and the upstream's reply decodes as a
\* Response, the Response returned carries the call's id whatever id the
\* reply carried, and the reply's result and error as they came.
C6_ForwardOverwritesId ==
    (SingleMode /\ "forward" \in steps /\ upstream.kind = "object") =>
        /\ resp.id = req.id
        /\ resp.result = upstream.arr[1].result
        /\ resp.error = upstream.arr[1].error
        /\ resp.jsonrpc = upstream.arr[1].jsonrpc

C6_Witness ==
    /\ Done /\ SingleMode /\ "forward" \in steps /\ upstream.kind = "object"
    /\ upstream.arr[1].id = JNum("99") /\ req.id = JNum("1")
    /\ out.kind = "object" /\ out.arr[1].id = JNum("1")

\* ---------------------------------------------------------------------- C7

EmptyBatch == body.kind = "array" /\ Len(body.elems) = 0

\* C7: an empty batch is answered with the empty array, and in that exchange
\* no decoder, homogeneity check, router or executor runs: no outbound call
\* is made and no file is read.
C7_EmptyBatchShortCircuits ==
    EmptyBatch =>
        /\ steps = {}
        /\ io = <<>>
        /\ NoFileRead
        /\ pc \in {"start", "done"}
        /\ Done => out = Wire("array", <<>>)

C7_Witness == EmptyBatch /\ Done /\ out = Wire("array", <<>>)

\* ---------------------------------------------------------------------- C8

\* C8: a decoded call whose version is not "2.0" gets error -32600 and
\* reaches no executor, as a single call and as an element of a batch (here
\* of a batch of one method, which the homogeneity guard lets through).
C8_VersionRejected ==
    /\ (Done /\ SingleMode /\ "router" \in steps /\ req.jsonrpc # "2.0") =>
          /\ resp.error.code = -32600
          /\ NoExecutor
          /\ req.id # Nil => IsError(out.arr[1], -32600)
    /\ (Done /\ BatchMode /\ AllDecode /\ ~MixedMethods(reqs)) =>
          \A k \in 1..N :
             (body.elems[k].shape = "object" /\ reqs[k].jsonrpc # "2.0") =>
                /\ NoExecutor
                /\ out.kind = "array" /\ Len(out.arr) = N
                /\ IsError(out.arr[k], -32600)

\* ---------------------------------------------------------------------- C9

\* C9: every Response written carries exactly one of result and error.
C9_ResultXorError ==
    \A k \in 1..Len(out.arr) : HasResult(out.arr[k]) # HasError(out.arr[k])

\* --------------------------------------------------------------------- C10

\* C10: when element k of a batch fails to decode, entry k of the written
\* array is the parse error -32700 of that element.
C10_ParseErrorAtIndex ==
    (Done /\ BatchMode) =>
        \A k \in 1..N :
            DecodeFails(body.elems[k]) =>
                /\ Len(out.arr) >= k
                /\ IsError(out.arr[k], -32700)

\* --------------------------------------------------------------------- C11

\* C11: when any element of a batch fails to decode, the written array holds
\* decode errors (-32700, id null) and nothing else: no executor ran and no
\* entry stems from an element that decoded.
C11_DecodeFailureOnlyParseErrors ==
    (Done /\ BatchMode /\ ~AllDecode) =>
        /\ out.kind = "array"
        /\ Len(out.arr) >= 1
        /\ \A k \in 1..Len(out.arr) : IsError(out.arr[k], -32700) /\ out.arr[k].id = JNull
        /\ NoExecutor
        /\ reqs = <<>>

C11_Witness ==
    /\ Done /\ BatchMode /\ N = 2
    /\ ~DecodeFails(body.elems[1]) /\ body.elems[1].id = JNum("1")
    /\ body.elems[1].method = MethodTrace
    /\ DecodeFails(body.elems[2])
    /\ Len(out.arr) = 1 /\ IsError(out.arr[1], -32700)

\* --------------------------------------------------------------------- C12

ForwardedBatch == BatchMode /\ "forward" \in steps /\ pc \in {"batch_send", "done"}

\* Every call of the batch gets the internal error, with its own id.
InternalErrorPerCall ==
    /\ Len(responses) = Len(reqs)
    /\ \A k \in 1..Len(reqs) :
          /\ responses[k].error.code = -32603
          /\ responses[k].result = Nil
          /\ responses[k].id = reqs[k].id

\* C12 as stated: an array reply is returned as is, any reply that decodes
\* as a single Response is returned as a batch of one, and only a reply that
\* decodes as neither gives every call the internal error.
C12_AnySingleResponseReturned ==
    ForwardedBatch =>
        /\ upstream.kind = "array" => responses = upstream.arr
        /\ upstream.kind = "object" => responses = upstream.arr
        /\ upstream.kind = "undecodable" => InternalErrorPerCall

\* C12 as amended: an array reply is returned as is; otherwise a reply that
\* decodes as a single Response whose id is not null is returned as a batch
\* of one; a reply that decodes as neither, or as a single Response whose id
\* is null or absent, gives every call the internal error with its own id.
C12_SingleResponseNeedsId ==
    ForwardedBatch =>
        /\ upstream.kind = "array" => responses = upstream.arr /\ ~nilSlice
        /\ upstream.kind = "null" => responses = <<>> /\ nilSlice
        /\ (upstream.kind = "object" /\ upstream.arr[1].id # Nil) =>
              responses = upstream.arr /\ ~nilSlice
        /\ (upstream.kind = "object" /\ upstream.arr[1].id = Nil) => InternalErrorPerCall
        /\ upstream.kind = "undecodable" => InternalErrorPerCall
        /\ Done => out = sendBatchResponse(responses, nilSlice)

C12_Witness ==
    /\ Done /\ ForwardedBatch /\ N = 2
    /\ upstream.kind = "object" /\ upstream.arr[1].id = Nil
    /\ reqs[1].id = JNum("1") /\ reqs[2].id = JStr("a")
    /\ Len(out.arr) = 2
    /\ IsError(out.arr[1], -32603) /\ out.arr[1].id = JNum("1")
    /\ IsError(out.arr[2], -32603) /\ out.arr[2].id = JStr("a")

\* --------------------------------------------------------------------- C13

\* The codes of the failures the dispatcher itself detects.
LocalCodes == {-32700, -32600, -32601, -32602, -32603}
WellFormedError(w) ==
    /\ w.jsonrpc = "2.0"
    /\ w.error.code \in LocalCodes
    /\ w.error.message # ""
    /\ w.result = Absent

EnvelopeFailure == body.kind \in {"unreadable", "malformed", "scalar"}
SingleDecodeFailure == SingleMode /\ DecodeFails(body.elems[1])
\* Single mode: handleSingleRequest returned an error of its own (invalid
\* version, invalid params, file or transport failure, malformed reply).
SingleCallFailure ==
    SingleMode /\ "router" \in steps /\ resp.error.code \in LocalCodes
\* Batch mode: slot k holds an error of the dispatcher's own.
SlotFailure(k) ==
    BatchMode /\ steps \cap Executors # {} /\ k \in 1..Len(responses)
        /\ responses[k].error.code \in LocalCodes

FailureDetected ==
    \/ EnvelopeFailure
    \/ SingleDecodeFailure
    \/ SingleCallFailure
    \/ BatchMode /\ ~AllDecode
    \/ BatchMode /\ AllDecode /\ Cardinality({reqs[k].method : k \in 1..Len(reqs)}) >= 2
    \/ \E k \in 1..Len(responses) : SlotFailure(k)

\* C13 as stated: an exchange in which a failure is detected ends with a
\* well-formed error Response written to the caller, never with no body.
C13_FailureAlwaysAnswered ==
    (Done /\ FailureDetected) =>
        /\ out.kind \in {"object", "array"}
        /\ \E k \in 1..Len(out.arr) : WellFormedError(out.arr[k])

\* C13 as amended: an exchange in which a failure is detected ends with a
\* well-formed error Response written to the caller, except in single mode
\* when the decoded call's id is nil (absent or null): then nothing is
\* written.  In a batch the error stands at the failing call's index.
C13_FailureAnsweredUnlessNoId ==
    Done =>
        /\ (EnvelopeFailure \/ SingleDecodeFailure) =>
              /\ out.kind = "object"
              /\ WellFormedError(out.arr[1]) /\ out.arr[1].id = JNull
        /\ (SingleCallFailure /\ req.id # Nil) =>
              /\ out.kind = "object"
              /\ WellFormedError(out.arr[1]) /\ out.arr[1].id = req.id
        /\ (SingleCallFailure /\ req.id = Nil) => out = NoBody
        /\ (BatchMode /\ ~AllDecode) =>
              /\ out.kind = "array" /\ Len(out.arr) >= 1
              /\ \A k \in 1..Len(out.arr) : WellFormedError(out.arr[k])
        /\ (BatchMode /\ AllDecode
                /\ Cardinality({reqs[k].method : k \in 1..Len(reqs)}) >= 2) =>
              /\ out.kind = "array" /\ Len(out.arr) = N
              /\ \A k \in 1..N : WellFormedError(out.arr[k])
        /\ \A k \in 1..Len(responses) :
              SlotFailure(k) =>
                 /\ out.kind = "array" /\ Len(out.arr) >= k
                 /\ WellFormedError(out.arr[k])
                 /\ out.arr[k].id = EncodeAlways(responses[k].id)

C13_Witness ==
    /\ Done /\ SingleMode /\ SingleCallFailure
    /\ req.method = MethodTrace /\ req.id = JStr("a")
    /\ fs["tx1"].t = "missing"
    /\ out.kind = "object" /\ IsError(out.arr[1], -32603) /\ out.arr[1].id = JStr("a")

\* --------------------------------------------------------------------- C14

TraceBatch == BatchMode /\ "trace" \in steps
TraceBatchReturned == TraceBatch /\ pc \in {"batch_send", "done"}

\* C14: the file fetcher's batch is handed to the writer only after all N
\* tasks have completed: whenever the handler is past the barrier, and so
\* whenever anything has been written, every task has written its slot and
\* signalled completion.
C14_SentOnlyAfterAllTasks ==
    TraceBatch =>
        /\ (TraceBatchReturned \/ out # NoBody) =>
              /\ Len(tpc) = N
              /\ \A k \in 1..N : tpc[k] = "done" /\ writes[k] >= 1
              /\ wg = 0
        /\ (Done => out = Wire("array", EncodeAll(responses)))

C14_Witness ==
    /\ Done /\ TraceBatch /\ N = 2
    /\ tpc = <<"done", "done">>
    /\ Len(out.arr) = 2
    /\ HasResult(out.arr[1]) /\ HasError(out.arr[2])

\* --------------------------------------------------------------------- C15

\* What call k's lookup yields given the files as they are.
FileFor(k) == IF TraceReads(reqs[k]) THEN FileOf(k) ELSE Unread
Lookup(k) == traceTask(reqs[k], FileFor(k))

\* C15: in the file fetcher's batch, slot k is written once, by task k, and
\* by no other task: it is untouched until task k has run and holds task k's
\* outcome for call k afterwards.  The array returned is therefore fixed by
\* the calls and the files, whatever the interleaving.
C15_EachSlotOwnTaskOnce ==
    TraceBatch =>
        /\ \A k \in 1..Len(tpc) :
              /\ writes[k] <= 1
              /\ writes[k] = 1 <=> tpc[k] \in {"returning", "done"}
              /\ writes[k] = 0 => responses[k] = ZeroResponse
              /\ writes[k] = 1 => responses[k] = Lookup(k)
        /\ TraceBatchReturned =>
              /\ writes = [k \in 1..N |-> 1]
              /\ responses = [k \in 1..N |-> Lookup(k)]

C15_Witness ==
    /\ Done /\ TraceBatch /\ N = 2
    /\ writes = <<1, 1>>
    /\ reqs[1].params = <<JStr("tx2")>> /\ reqs[2].params = <<JStr("tx1")>>
    /\ responses[1].result = Doc("tx2") /\ responses[2].result = Doc("tx1")

\* ---------------------------------------------------------------------------
\* C16  A batch of debug_traceBlockByHash calls issues its REST calls one at a
\*      time in batch index order: at most one call is in flight, the call of
\*      an index goes out only when every earlier index has its Response,
\*      only calls with an integer parameter cause a call and each causes
\*      exactly one, and the Response of an index is the function of its own
\*      call and its own reply whatever happened to the others.
RestBatch == BatchMode /\ "rest" \in steps
RestEventsOf(k) == {e \in 1..Len(io) : io[e].at = k}
RestReplyOf(k) == IF RestEventsOf(k) = {} THEN "none"
                  ELSE io[CHOOSE e \in RestEventsOf(k) : TRUE].reply
RestLoopReturned == RestBatch /\ pc \in {"batch_send", "done"}
C16_RestCallsSequential ==
    RestBatch =>
        /\ Cardinality(Pending(io)) <= 1
        /\ \A e \in 1..Len(io) :
              /\ io[e].op = "rest"
              /\ io[e].at \in 1..N
              /\ RestCalls(reqs[io[e].at])
              /\ io[e].arg = BlockId(reqs[io[e].at].params[1])
              /\ \A j \in 1..(io[e].at - 1) : responses[j] # ZeroResponse
              /\ \A f \in 1..(e - 1) : io[f].at < io[e].at /\ io[f].reply # "pending"
        /\ RestLoopReturned =>
              /\ Pending(io) = {}
              /\ \A k \in 1..N :
                    /\ Cardinality(RestEventsOf(k)) = (IF RestCalls(reqs[k]) THEN 1 ELSE 0)
                    /\ responses[k] =
                          handleGetTransactionInfoByBlockNum(reqs[k], RestReplyOf(k))

\* Two calls with block numbers went out in order; the first failed in
\* transport, the second was answered with an array and carries a result.
C16_Witness ==
    /\ Done /\ RestBatch /\ N = MaxBatch
    /\ Len(io) = N
    /\ io[1].at = 1 /\ io[1].reply = "transport"
    /\ io[N].at = N /\ io[N].reply = "array"
    /\ IsError(out.arr[1], -32603)
    /\ HasResult(out.arr[N])

\* ---------------------------------------------------------------------------
\* C17  A batch executor runs only after every element has decoded and all
\*      calls carry one method: while a batch has an element that fails to
\*      decode, or its decoded calls carry two or more methods, no REST call
\*      and no upstream POST is made and no trace file is read; and whenever
\*      an executor has run, decoder and guard ran before it on a batch that
\*      decodes to one method.
MethodsDecoded == {DecodeCall(body.elems[k]).method : k \in 1..N}
RejectedBatch == BatchMode /\ (~AllDecode \/ Cardinality(MethodsDecoded) >= 2)
C17_NoExecutorForRejectedBatch ==
    /\ RejectedBatch => NoExecutor
    /\ (BatchMode /\ ~NoExecutor) =>
          /\ AllDecode
          /\ Cardinality(MethodsDecoded) = 1
          /\ {"decoder", "guard"} \subseteq steps

\* A batch of a trace call and a block call, both decodable, was answered
\* with the mixed-method errors and nothing was called or read.
C17_Witness ==
    /\ Done /\ BatchMode /\ AllDecode /\ N = MaxBatch
    /\ DecodeCall(body.elems[1]).method = MethodTrace
    /\ DecodeCall(body.elems[N]).method = MethodBlock
    /\ "guard" \in steps
    /\ \A k \in 1..N : IsError(out.arr[k], -32601)
    /\ NoExecutor

\* ---------------------------------------------------------------------------
\* C18  When every file read returns, the batch call of the trace executor
\*      ends and the batch is sent: each task signals the wait group once,
\*      on whichever of its returns it takes, so the counter is never
\*      negative, always equals the number of tasks that have not signalled,
\*      reaches zero, and the handler goes on to write the batch.
Signalled == {k \in 1..Len(tpc) : tpc[k] = "done"}
CounterExact == TraceBatch => (wg >= 0 /\ wg = Len(tpc) - Cardinality(Signalled))
C18_TraceBatchTerminates ==
    /\ []CounterExact
    /\ (pc = "batch_trace") ~> (TraceBatchReturned /\ wg = 0)
    /\ (pc = "batch_trace") ~> (Done /\ out.kind = "array" /\ Len(out.arr) = N)

\* A batch of two tasks ended with the counter at zero, one task having left
\* by the read failure and the other by the parameter check.
C18_Witness ==
    /\ Done /\ TraceBatch /\ N = MaxBatch
    /\ wg = 0 /\ Signalled = 1..N
    /\ responses[1].error.message = "cannot read trace file"
    /\ responses[N].error.message = "Invalid params"
    /\ Len(out.arr) = N

\* ---------------------------------------------------------------------------
\* C19  For eth_debugTransactionTrace the batch executor and the single
\*      executor agree call by call: once the tasks are joined, the slot of
\*      every call of version "2.0" holds the Response that
\*      handleDebugTransactionTrace computes for that call alone on the same
\*      file contents (same id, same result, same error code and message),
\*      and the written entry is that Response's encoding.
SingleAnswer(k) == handleDebugTransactionTrace(reqs[k], FileFor(k))
C19_BatchAgreesWithSingle ==
    /\ TraceBatchReturned =>
          \A k \in 1..N :
             reqs[k].jsonrpc = "2.0" => responses[k] = SingleAnswer(k)
    /\ (Done /\ TraceBatch) =>
          /\ Len(out.arr) = N
          /\ \A k \in 1..N :
                reqs[k].jsonrpc = "2.0" => out.arr[k] = EncodeResponse(SingleAnswer(k))

\* A written batch of two version "2.0" trace calls: the first file holds
\* malformed JSON, the second a document.
C19_Witness ==
    /\ Done /\ TraceBatch /\ N = MaxBatch
    /\ \A k \in 1..N : reqs[k].jsonrpc = "2.0" /\ TraceReads(reqs[k])
    /\ FileOf(1).t = "badjson"
    /\ out.arr[1].error.message = "Invalid JSON in trace file"
    /\ HasResult(out.arr[N]) /\ ~HasError(out.arr[N])

====
